---- MODULE Spec2Model ----
(***************************************************************************)
(* A model of the 2048 board engine of src/2048.c: the 4x4 board of tile   *)
(* exponents, the row merger, the rotation, the scorer, the spawner, the   *)
(* terminal-state predicates, update and the main loop.                    *)
(*                                                                         *)
(* A board is a function Idx -> (Idx -> exponent), indexed from 0 like the *)
(* C array tiles[i][j]; a row is a function Idx -> exponent.               *)
(***************************************************************************)
EXTENDS Integers, Sequences, FiniteSets, TLC

\* ---------------------------------------------------------------- constants

TARGET_TILE == 11
INITIAL_TILES == 2
TILES_PER_DIM == 4

\* a cell is a u8
U8 == 256

Idx == 0..(TILES_PER_DIM - 1)

\* the values getch can hand to update: the four arrow keys and anything else
ArrowKeys == {"KEY_LEFT", "KEY_DOWN", "KEY_RIGHT", "KEY_UP"}
Keys == ArrowKeys \cup {"OTHER"}

\* ------------------------------------------------------------------- bounds

\* largest exponent in the boards the move specification starts from
MaxExp == 2
\* rand_r's results are drawn from 0..DrawMax
DrawMax == 10
\* number of grid-changing moves a modelled session plays
MaxMoves == 3

\* ------------------------------------------------------------ the functions

\* the array of TILES_PER_DIM entries whose entry k is f(k), written out
array(f(_)) == (0 :> f(0)) @@ (1 :> f(1)) @@ (2 :> f(2)) @@ (3 :> f(3))

ZeroRow == array(LAMBDA j : 0)
ZeroBoard == array(LAMBDA i : ZeroRow)

RECURSIVE count_zeros_from(_, _)
count_zeros_from(b, c) ==
  IF c >= TILES_PER_DIM * TILES_PER_DIM THEN 0
  ELSE (IF b[c \div TILES_PER_DIM][c % TILES_PER_DIM] = 0 THEN 1 ELSE 0)
       + count_zeros_from(b, c + 1)

count_zeros(b) == count_zeros_from(b, 0)

\* The generator behind rand_r, a deterministic function of *seed.  The seed
\* is the pair of the next two results (an additive lagged generator over
\* 0..DrawMax): the first two draws from a seed <<a, b>> are a and b.
rand_r(seed) ==
  [val  |-> seed[1],
   seed |-> <<seed[2], (seed[1] + seed[2] + 1) % (DrawMax + 1)>>]

\* (mutant) the loop of new_tile without the test `tile-- == 0`: every empty
\* cell is filled
RECURSIVE new_tile_loop_fills_all(_, _, _, _)
new_tile_loop_fills_all(b, tile, tile_size, c) ==
  IF c >= TILES_PER_DIM * TILES_PER_DIM THEN b
  ELSE LET i == c \div TILES_PER_DIM
           j == c % TILES_PER_DIM
       IN  IF b[i][j] # 0 THEN new_tile_loop_fills_all(b, tile, tile_size, c + 1)
           ELSE new_tile_loop_fills_all([b EXCEPT ![i][j] = tile_size],
                                        tile - 1, tile_size, c + 1)

\* the loop of new_tile over the cells in row-major order; c = 4*i + j
RECURSIVE new_tile_loop(_, _, _, _)
new_tile_loop(b, tile, tile_size, c) ==
  IF c >= TILES_PER_DIM * TILES_PER_DIM THEN b
  ELSE LET i == c \div TILES_PER_DIM
           j == c % TILES_PER_DIM
       IN  IF b[i][j] # 0 THEN new_tile_loop(b, tile, tile_size, c + 1)
           ELSE IF tile = 0
                THEN new_tile_loop([b EXCEPT ![i][j] = tile_size],
                                   tile - 1, tile_size, c + 1)
                ELSE new_tile_loop(b, tile - 1, tile_size, c + 1)

\* (mutant) new_tile with the exponent 1 + rand_r(seed) % 10
new_tile_any_size(b, seed) ==
  LET zeros == count_zeros(b)
      r1 == rand_r(seed)
      tile == r1.val % zeros
      r2 == rand_r(r1.seed)
      tile_size == 1 + (r2.val % 10)
  IN  [board |-> new_tile_loop(b, tile, tile_size, 0), seed |-> r2.seed]

\* (mutant) new_tile drawing the exponent before the cell
new_tile_value_first(b, seed) ==
  LET zeros == count_zeros(b)
      r1 == rand_r(seed)
      tile_size == 1 + (IF r1.val % 10 < 1 THEN 1 ELSE 0)
      r2 == rand_r(r1.seed)
      tile == r2.val % zeros
  IN  [board |-> new_tile_loop(b, tile, tile_size, 0), seed |-> r2.seed]

\* new_tile on a board with an empty cell (zeros > 0); the new seed is
\* returned beside the board
new_tile(b, seed) ==
  LET zeros == count_zeros(b)
      r1 == rand_r(seed)
      tile == r1.val % zeros
      r2 == rand_r(r1.seed)
      tile_size == 1 + (IF r2.val % 10 < 1 THEN 1 ELSE 0)
  IN  [board |-> new_tile_loop(b, tile, tile_size, 0), seed |-> r2.seed]

\* (mutant) rotate_cw without the reversal of the source row index
rotate_cw_transposed(b) == array(LAMBDA i : array(LAMBDA j : b[j][i]))

rotate_cw(b) == array(LAMBDA i : array(LAMBDA j : b[4 - j - 1][i]))

\* (mutant) move_nonzero_first without its memset
memset0_missing(row, from, n) == row

memset0(row, from, n) ==
  array(LAMBDA k : IF k >= from /\ k < from + n THEN 0 ELSE row[k])

RECURSIVE move_nonzero_first_loop(_, _, _, _)
move_nonzero_first_loop(row, len, i, num_nonzero) ==
  IF i >= len
  THEN [row |-> memset0(row, num_nonzero, len - num_nonzero), n |-> num_nonzero]
  ELSE IF row[i] # 0
       THEN move_nonzero_first_loop([row EXCEPT ![num_nonzero] = row[i]],
                                    len, i + 1, num_nonzero + 1)
       ELSE move_nonzero_first_loop(row, len, i + 1, num_nonzero)

\* returns the packed row and num_nonzero
move_nonzero_first(row, len) == move_nonzero_first_loop(row, len, 0, 0)

\* (mutant) the merge loop without `row[i+1] = 0`
RECURSIVE merge_row_loop_keeps_right(_, _, _)
merge_row_loop_keeps_right(row, num_nonzero, i) ==
  IF i >= num_nonzero - 1 THEN row
  ELSE IF row[i] # row[i + 1] THEN merge_row_loop_keeps_right(row, num_nonzero, i + 1)
       ELSE merge_row_loop_keeps_right([row EXCEPT ![i] = (row[i] + 1) % U8],
                                       num_nonzero, i + 1)

\* (mutant) the merge loop without `row[i]++`
RECURSIVE merge_row_loop_drops(_, _, _)
merge_row_loop_drops(row, num_nonzero, i) ==
  IF i >= num_nonzero - 1 THEN row
  ELSE IF row[i] # row[i + 1] THEN merge_row_loop_drops(row, num_nonzero, i + 1)
       ELSE merge_row_loop_drops([row EXCEPT ![i + 1] = 0], num_nonzero, i + 1)

\* (mutant) the merge loop doubling the exponent where the code adds one
RECURSIVE merge_row_loop_doubles(_, _, _)
merge_row_loop_doubles(row, num_nonzero, i) ==
  IF i >= num_nonzero - 1 THEN row
  ELSE IF row[i] # row[i + 1] THEN merge_row_loop_doubles(row, num_nonzero, i + 1)
       ELSE merge_row_loop_doubles([row EXCEPT ![i] = (2 * row[i]) % U8, ![i + 1] = 0],
                                   num_nonzero, i + 1)

RECURSIVE merge_row_loop(_, _, _)
merge_row_loop(row, num_nonzero, i) ==
  IF i >= num_nonzero - 1 THEN row
  ELSE IF row[i] # row[i + 1] THEN merge_row_loop(row, num_nonzero, i + 1)
       ELSE merge_row_loop([row EXCEPT ![i] = (row[i] + 1) % U8, ![i + 1] = 0],
                           num_nonzero, i + 1)

\* (mutant) merge_row_left without its second move_nonzero_first
merge_row_left_unpacked(row) ==
  LET p == move_nonzero_first(row, TILES_PER_DIM)
  IN  merge_row_loop(p.row, p.n, 0)

merge_row_left(row) ==
  LET p == move_nonzero_first(row, TILES_PER_DIM)
      m == merge_row_loop(p.row, p.n, 0)
  IN  move_nonzero_first(m, p.n).row

merge_left(b) == array(LAMBDA i : merge_row_left(b[i]))

\* (mutant) the loop of is_victory with > for >=
RECURSIVE is_victory_from_above(_, _)
is_victory_from_above(b, c) ==
  IF c >= TILES_PER_DIM * TILES_PER_DIM THEN FALSE
  ELSE (b[c \div TILES_PER_DIM][c % TILES_PER_DIM] > TARGET_TILE)
       \/ is_victory_from_above(b, c + 1)

RECURSIVE is_victory_from(_, _)
is_victory_from(b, c) ==
  IF c >= TILES_PER_DIM * TILES_PER_DIM THEN FALSE
  ELSE (b[c \div TILES_PER_DIM][c % TILES_PER_DIM] >= TARGET_TILE)
       \/ is_victory_from(b, c + 1)

is_victory(b) == is_victory_from(b, 0)

\* (mutant) eq comparing sizeof(a.tiles[0]) bytes: the first row only
eq_first_row(a, b) == \A j \in Idx : a[0][j] = b[0][j]

eq(a, b) == \A i \in Idx : \A j \in Idx : a[i][j] = b[i][j]

\* (mutant) the loop of is_loss with three passes for four
RECURSIVE is_loss_loop_three(_, _, _)
is_loss_loop_three(b, i, no_moves) ==
  IF i >= 3 THEN no_moves
  ELSE is_loss_loop_three(rotate_cw(b), i + 1, no_moves /\ eq(b, merge_left(b)))

RECURSIVE is_loss_loop(_, _, _)
is_loss_loop(b, i, no_moves) ==
  IF i >= 4 THEN no_moves
  ELSE is_loss_loop(rotate_cw(b), i + 1, no_moves /\ eq(b, merge_left(b)))

is_loss(b) == is_loss_loop(b, 0, TRUE)

\* (mutant) the rotations of KEY_DOWN and KEY_UP exchanged
cw_rotations_of_key_swapped(key) ==
  CASE key = "KEY_LEFT"  -> 0
    [] key = "KEY_DOWN"  -> 3
    [] key = "KEY_RIGHT" -> 2
    [] key = "KEY_UP"    -> 1
    [] OTHER             -> -1

cw_rotations_of_key(key) ==
  CASE key = "KEY_LEFT"  -> 0
    [] key = "KEY_DOWN"  -> 1
    [] key = "KEY_RIGHT" -> 2
    [] key = "KEY_UP"    -> 3
    [] OTHER             -> -1

\* number of cells of b that hold v: b0_count[v], b1_count[v] of dscore
tile_count(b, v) == Cardinality({c \in Idx \X Idx : b[c[1]][c[2]] = v})

\* dscore indexes its count arrays with every cell: defined only when every
\* cell of both boards is at most TARGET_TILE
in_range(b) == \A i \in Idx : \A j \in Idx : b[i][j] <= TARGET_TILE

RECURSIVE dscore_loop(_, _, _, _)
dscore_loop(b0_count, b1_count, i, score) ==
  IF i < 1 THEN score
  ELSE LET dcount == b1_count[i] - b0_count[i]
       IN  IF dcount > 0
           THEN dscore_loop([b0_count EXCEPT ![i - 1] = b0_count[i - 1] - 2],
                            b1_count, i - 1, score + dcount * 2^i)
           ELSE dscore_loop(b0_count, b1_count, i - 1, score)

dscore(b0, b1) ==
  dscore_loop([v \in 0..TARGET_TILE |-> tile_count(b0, v)],
              [v \in 0..TARGET_TILE |-> tile_count(b1, v)],
              TARGET_TILE, 0)

\* the loop of update: merge_left before the rotation numbered `rotations`,
\* four rotations in all
RECURSIVE rotate_merge_loop(_, _, _)
rotate_merge_loop(b, rotations, i) ==
  IF i >= 4 THEN b
  ELSE rotate_merge_loop(
         rotate_cw(IF i = rotations THEN merge_left(b) ELSE b), rotations, i + 1)

rotate_merge(b, rotations) == rotate_merge_loop(b, rotations, 0)

\* (mutant) update placing a tile whenever the board has an empty cell,
\* whether the move changed the board or not
update_spawns_when_room(g, key) ==
  LET rotations == cw_rotations_of_key(key)
      b0 == g.board
      b1 == rotate_merge(g.board, rotations)
      score == g.score + dscore(b0, b1)
  IN  IF rotations < 0 THEN g
      ELSE IF count_zeros(b1) > 0
           THEN LET t == new_tile(b1, g.seed)
                IN  [board |-> t.board, score |-> score, seed |-> t.seed]
           ELSE [board |-> b1, score |-> score, seed |-> g.seed]

\* (mutant) update without the call of new_tile
update_never_spawns(g, key) ==
  LET rotations == cw_rotations_of_key(key)
      b0 == g.board
      b1 == rotate_merge(g.board, rotations)
  IN  IF rotations < 0 THEN g
      ELSE [board |-> b1, score |-> g.score + dscore(b0, b1), seed |-> g.seed]

\* (mutant) update with the score taken after the new tile is placed
update_scores_after_spawn(g, key) ==
  LET rotations == cw_rotations_of_key(key)
      b0 == g.board
      b1 == rotate_merge(g.board, rotations)
  IN  IF rotations < 0 THEN g
      ELSE IF ~eq(b1, b0)
           THEN LET t == new_tile(b1, g.seed)
                IN  [board |-> t.board, score |-> g.score + dscore(b0, t.board),
                     seed |-> t.seed]
           ELSE [board |-> b1, score |-> g.score + dscore(b0, b1), seed |-> g.seed]

\* update where its behaviour is defined (see update_pc)
update(g, key) ==
  LET rotations == cw_rotations_of_key(key)
      b0 == g.board
      b1 == rotate_merge(g.board, rotations)
      score == g.score + dscore(b0, b1)
  IN  IF rotations < 0 THEN g
      ELSE IF ~eq(b1, b0)
           THEN LET t == new_tile(b1, g.seed)
                IN  [board |-> t.board, score |-> score, seed |-> t.seed]
           ELSE [board |-> b1, score |-> score, seed |-> g.seed]

\* dscore(b0, g.board) at line 216 indexes a count array out of range
dscore_undefined(g, key) ==
  LET rotations == cw_rotations_of_key(key)
  IN  /\ rotations >= 0
      /\ ~in_range(g.board) \/ ~in_range(rotate_merge(g.board, rotations))

\* new_tile at line 219 is called on a board with no empty cell, and divides
\* by zeros = 0
new_tile_undefined(g, key) ==
  LET rotations == cw_rotations_of_key(key)
      b1 == rotate_merge(g.board, rotations)
  IN  /\ rotations >= 0
      /\ ~eq(b1, g.board)
      /\ count_zeros(b1) = 0

\* where a call of update ends: back in the caller, or in undefined behaviour
update_pc(g, key, back) ==
  IF dscore_undefined(g, key) THEN "dscore_out_of_range"
  ELSE IF new_tile_undefined(g, key) THEN "new_tile_div0"
  ELSE back

\* ---------------------------------------------------------------- the state

VARIABLES
  pc,     \* where the program is: in main, or at the call or return of a function
  g,      \* the struct game of main: [board, score, seed]
  g0,     \* the game passed to the last call (update's and new_tile's argument)
  key,    \* the last key read by getch
  moves,  \* grid-changing moves played so far in the modelled part of a session
  arg,    \* the argument of a function called on its own
  ret,    \* and its result
  script  \* the keys the player presses first, as rotation counts; then any key

vars == <<pc, g, g0, key, moves, arg, ret, script>>

Seeds == (0..DrawMax) \X (0..DrawMax)

NoGame == [board |-> ZeroBoard, score |-> 0, seed |-> <<0, 0>>]

\* ------------------------------------------------------------------ sessions

\* main up to the loop: the empty board, score 0, and INITIAL_TILES tiles
RECURSIVE initial_tiles(_, _)
initial_tiles(game, i) ==
  IF i >= INITIAL_TILES \/ count_zeros(game.board) = 0 THEN game
  ELSE LET t == new_tile(game.board, game.seed)
       IN  initial_tiles([game EXCEPT !.board = t.board, !.seed = t.seed], i + 1)

start(seed) == initial_tiles([board |-> ZeroBoard, score |-> 0, seed |-> seed], 0)

\* the main loop run on a given sequence of keys
RECURSIVE play(_, _)
play(game, keys) ==
  IF \/ keys = <<>>
     \/ is_victory(game.board) \/ is_loss(game.board)
     \/ update_pc(game, Head(keys), "loop") # "loop"
  THEN game
  ELSE play(update(game, Head(keys)), Tail(keys))

\* A session in its late phase: the game main holds after the seed <<2, 9>>
\* and these twelve keys, three moves away from a lost board.
LateKeys ==
  <<"KEY_LEFT", "KEY_RIGHT", "KEY_LEFT", "KEY_UP", "KEY_UP", "KEY_DOWN",
    "KEY_DOWN", "KEY_DOWN", "KEY_UP", "KEY_DOWN", "KEY_UP", "KEY_DOWN">>

LateGame == play(start(<<2, 9>>), LateKeys)

\* the arrow key update turns r times for
KeyOf(r) == CHOOSE k \in ArrowKeys : cw_rotations_of_key(k) = r

\* The keys of a player who is about to win: after the seed <<0, 0>> and the
\* 739 keys below (0 Left, 1 Down, 2 Right, 3 Up) the board is two moves
\* away from a 2048-tile.
WinRotations ==
  <<0, 0, 0, 0, 0, 0, 1, 3, 0, 2, 0, 0, 3, 0, 0, 0, 3, 3, 2, 0, 3, 0, 3, 2, 3, 2, 3, 0, 0, 2,
    2, 0, 3, 2, 2, 0, 0, 3, 0, 2, 2, 3, 0, 3, 2, 3, 2, 0, 0, 0, 3, 2, 0, 3, 2, 2, 2, 3, 0, 3,
    2, 3, 0, 2, 3, 2, 3, 0, 2, 3, 0, 0, 0, 2, 0, 0, 2, 0, 3, 2, 0, 3, 0, 3, 3, 2, 3, 3, 2, 3,
    0, 2, 3, 0, 2, 0, 3, 0, 0, 2, 0, 0, 3, 2, 3, 2, 3, 0, 0, 2, 3, 0, 0, 2, 3, 0, 0, 0, 2, 0,
    0, 3, 0, 2, 3, 0, 3, 0, 0, 2, 3, 3, 2, 0, 2, 2, 0, 3, 2, 3, 2, 3, 0, 0, 0, 3, 0, 2, 3, 0,
    0, 2, 0, 3, 2, 3, 2, 0, 3, 0, 2, 3, 0, 2, 3, 0, 2, 0, 2, 3, 2, 3, 3, 0, 2, 3, 2, 2, 0, 2,
    2, 3, 2, 2, 2, 2, 3, 0, 0, 3, 2, 3, 0, 3, 0, 2, 3, 0, 0, 2, 2, 3, 0, 3, 2, 3, 2, 0, 3, 2,
    2, 3, 0, 2, 0, 2, 3, 2, 3, 2, 0, 2, 0, 2, 0, 2, 3, 0, 2, 0, 3, 2, 3, 0, 2, 0, 3, 0, 2, 3,
    2, 3, 0, 2, 3, 0, 2, 0, 2, 3, 2, 3, 3, 0, 2, 3, 2, 3, 0, 0, 2, 3, 0, 3, 2, 2, 3, 0, 2, 2,
    3, 3, 2, 2, 0, 2, 3, 0, 3, 2, 0, 0, 0, 0, 2, 3, 2, 2, 0, 2, 3, 2, 0, 2, 2, 3, 0, 3, 2, 2,
    3, 2, 0, 2, 0, 2, 3, 0, 2, 0, 3, 2, 2, 2, 3, 0, 3, 0, 2, 3, 0, 2, 3, 0, 2, 0, 2, 0, 2, 3,
    2, 3, 3, 0, 2, 3, 2, 2, 0, 2, 2, 3, 2, 2, 2, 2, 3, 0, 2, 0, 3, 3, 2, 2, 2, 0, 2, 3, 2, 0,
    2, 3, 2, 3, 0, 3, 2, 2, 3, 2, 0, 0, 3, 0, 2, 2, 3, 0, 2, 2, 0, 0, 3, 2, 3, 2, 3, 0, 2, 3,
    0, 0, 0, 2, 0, 0, 2, 0, 3, 2, 0, 3, 0, 3, 3, 2, 3, 3, 2, 3, 0, 2, 3, 0, 0, 2, 0, 3, 0, 2,
    3, 0, 2, 3, 3, 2, 3, 0, 2, 0, 3, 2, 2, 3, 2, 2, 2, 3, 0, 3, 0, 2, 2, 0, 3, 2, 0, 3, 2, 3,
    3, 2, 3, 2, 3, 0, 2, 3, 2, 3, 2, 3, 0, 0, 0, 3, 0, 2, 3, 0, 0, 2, 0, 3, 2, 3, 2, 0, 3, 0,
    2, 3, 0, 2, 3, 0, 2, 0, 2, 3, 2, 3, 3, 0, 2, 3, 2, 2, 0, 2, 2, 3, 2, 2, 2, 0, 2, 3, 0, 2,
    0, 3, 2, 0, 3, 0, 3, 2, 0, 3, 2, 3, 3, 2, 0, 0, 3, 2, 2, 2, 3, 3, 0, 2, 3, 2, 3, 2, 3, 3,
    0, 2, 0, 0, 2, 0, 2, 3, 3, 3, 0, 0, 3, 2, 0, 2, 0, 2, 2, 3, 0, 2, 2, 3, 0, 0, 3, 2, 2, 0,
    3, 0, 0, 2, 2, 3, 3, 3, 2, 0, 3, 3, 2, 0, 0, 3, 0, 2, 3, 0, 3, 2, 3, 0, 0, 2, 3, 2, 2, 3,
    0, 2, 0, 2, 0, 0, 3, 2, 0, 2, 3, 3, 0, 2, 0, 0, 3, 2, 2, 0, 2, 3, 2, 2, 0, 3, 0, 2, 2, 3,
    0, 3, 2, 0, 2, 0, 3, 2, 0, 3, 0, 0, 2, 2, 0, 3, 3, 3, 2, 0, 3, 0, 0, 2, 3, 0, 2, 3, 2, 3,
    3, 0, 3, 2, 3, 0, 2, 3, 2, 3, 2, 3, 3, 0, 3, 2, 3, 2, 0, 2, 3, 3, 2, 3, 0, 0, 3, 2, 2, 0,
    3, 0, 0, 2, 2, 3, 0, 2, 0, 3, 2, 3, 2, 2, 0, 3, 3, 2, 2, 0, 3, 3, 2, 2, 0, 0, 2, 3, 2, 0,
    0, 2, 0, 2, 3, 2, 2, 2, 2, 0, 3, 3, 0, 3, 0, 0, 2, 1, 0>>

\* main, line 238: the game before the initial tiles, for any seed time(NULL)
\* gives and any keys; or the seed <<0, 0>> and the keys of WinRotations; or a
\* session taken up in its late phase
Init ==
  /\ \/ /\ pc = "init0"
        /\ \E seed \in Seeds : g = [board |-> ZeroBoard, score |-> 0, seed |-> seed]
        /\ script = <<>>
     \/ /\ pc = "init0"
        /\ g = [board |-> ZeroBoard, score |-> 0, seed |-> <<0, 0>>]
        /\ script = WinRotations
     \/ /\ pc = "loop"
        /\ g = LateGame
        /\ script = <<>>
  /\ g0 = g
  /\ key = "NONE"
  /\ moves = 0
  /\ arg = <<>>
  /\ ret = <<>>

\* main, lines 243-244: one pass of the loop that places the initial tiles
InitTile ==
  /\ pc \in {"init0", "init1"}
  /\ g0' = g
  /\ IF count_zeros(g.board) = 0
     THEN pc' = "new_tile_div0" /\ g' = g
     ELSE /\ pc' = (IF pc = "init0" THEN "init1" ELSE "loop")
          /\ LET t == new_tile(g.board, g.seed)
             IN  g' = [g EXCEPT !.board = t.board, !.seed = t.seed]
  /\ UNCHANGED <<key, moves, arg, ret, script>>

\* (mutant) the main loop with `while(!is_loss(g.board))`
Step_until_loss ==
  /\ pc = "loop"
  /\ ~is_loss(g.board)
  /\ script = <<>> => moves < MaxMoves
  /\ \E k \in Keys :
       /\ script # <<>> => k = KeyOf(Head(script))
       /\ script' = (IF script = <<>> THEN script ELSE Tail(script))
       /\ key' = k
       /\ g0' = g
       /\ pc' = update_pc(g, k, "loop")
       /\ IF pc' # "loop"
          THEN g' = g /\ moves' = moves
          ELSE /\ g' = update(g, k)
               /\ moves' = (IF script # <<>> \/ eq(g'.board, g.board)
                            THEN moves ELSE moves + 1)
  /\ UNCHANGED <<arg, ret>>

\* main, lines 245-249: one pass of the main loop, on the next key of the
\* script or, when the script is over, on any key
Step ==
  /\ pc = "loop"
  /\ ~is_victory(g.board) /\ ~is_loss(g.board)
  /\ script = <<>> => moves < MaxMoves
  /\ \E k \in Keys :
       /\ script # <<>> => k = KeyOf(Head(script))
       /\ script' = (IF script = <<>> THEN script ELSE Tail(script))
       /\ key' = k
       /\ g0' = g
       /\ pc' = update_pc(g, k, "loop")
       /\ IF pc' # "loop"
          THEN g' = g /\ moves' = moves
          ELSE /\ g' = update(g, k)
               /\ moves' = (IF script # <<>> \/ eq(g'.board, g.board)
                            THEN moves ELSE moves + 1)
  /\ UNCHANGED <<arg, ret>>

\* main, lines 245 and 250-253: the loop ends
Exit ==
  /\ pc = "loop"
  /\ is_victory(g.board) \/ is_loss(g.board)
  /\ pc' = "done"
  /\ UNCHANGED <<g, g0, key, moves, arg, ret, script>>

Next == InitTile \/ Step \/ Exit

Spec == Init /\ [][Next]_vars

\* -- sessions played to their end

\* the board is final: won or lost
Terminal(b) == is_victory(b) \/ is_loss(b)

\* the first of Left, Down, Right, Up that changes the board
AutoKey(b) ==
  KeyOf(CHOOSE r \in 0..3 :
          /\ rotate_merge(b, r) # b
          /\ \A q \in 0..(r - 1) : rotate_merge(b, q) = b)

\* main, lines 245-249: one pass of the main loop for a player who, after the
\* script and MaxMoves moves of any kind, presses the first arrow key that
\* changes the board
Auto ==
  /\ pc = "loop"
  /\ ~Terminal(g.board)
  /\ script = <<>> /\ moves >= MaxMoves
  /\ LET k == AutoKey(g.board)
     IN  /\ key' = k
         /\ g0' = g
         /\ pc' = update_pc(g, k, "loop")
         /\ g' = (IF update_pc(g, k, "loop") = "loop" THEN update(g, k) ELSE g)
  /\ UNCHANGED <<moves, arg, ret, script>>

\* a pass of the loop that changes the board
Changing == pc = "loop" /\ pc' = "loop" /\ g'.board # g.board

\* while the board is not final the player comes to press an arrow key that
\* changes it: weak fairness of Changing, which is enabled in the loop on
\* every board that is not final (on such a board is_loss is false)
PlayerFair ==
  \/ []<>(~(pc = "loop" /\ ~Terminal(g.board)))
  \/ []<><<Changing>>_vars

\* the sessions played to their end: the one of WinRotations and the late game
InitLive ==
  /\ Init
  /\ pc = "init0" => script # <<>>

NextLive == InitTile \/ Step \/ Auto \/ Exit

\* main runs on: weak fairness of InitTile and of Exit, the latter written
\* with its enabling condition (Exit is the only step in the loop on a final
\* board)
ProgramRuns ==
  /\ WF_vars(InitTile)
  /\ []<>(~(pc = "loop" /\ Terminal(g.board)))

SpecLive ==
  /\ InitLive /\ [][NextLive]_vars
  /\ ProgramRuns
  /\ PlayerFair

\* ------------------------------------------------- the functions on their own

\* the rows with entries in 0..e, and the board made of two rows in turn
Rows(e) == [Idx -> 0..e]
stripes(a, b) == array(LAMBDA i : IF i % 2 = 0 THEN a ELSE b)
Transpose(b) == array(LAMBDA i : array(LAMBDA j : b[j][i]))

\* -- merge_row_left and merge_left, on every row of exponents 0..TARGET_TILE

\* the board whose row i is `row` turned left by i places
BoardOfRow(row) == array(LAMBDA i : array(LAMBDA j : row[(i + j) % TILES_PER_DIM]))

InitRow ==
  /\ pc = "merge"
  /\ arg \in Rows(TARGET_TILE)
  /\ ret = arg
  /\ g = NoGame /\ g0 = NoGame /\ key = "NONE" /\ moves = 0 /\ script = <<>>

CallMergeRowLeft ==
  /\ pc = "merge"
  /\ ret' = merge_row_left(arg)
  /\ pc' = "merge_row_left_ret"
  /\ UNCHANGED <<g, g0, key, moves, arg, script>>

\* merge_row_left called on its own result
CallMergeRowLeftAgain ==
  /\ pc = "merge_row_left_ret"
  /\ arg' = ret
  /\ ret' = merge_row_left(ret)
  /\ pc' = "merge_row_left_again"
  /\ UNCHANGED <<g, g0, key, moves, script>>

CallMergeLeft ==
  /\ pc = "merge"
  /\ arg' = BoardOfRow(arg)
  /\ ret' = merge_left(BoardOfRow(arg))
  /\ pc' = "merge_left_ret"
  /\ UNCHANGED <<g, g0, key, moves, script>>

NextRow == CallMergeRowLeft \/ CallMergeRowLeftAgain \/ CallMergeLeft

SpecRow == InitRow /\ [][NextRow]_vars

\* -- update, on its own

\* a seed whose tile is a 4 in the first empty cell, and one whose tile is a 2
MoveSeeds == {<<0, 0>>, <<DrawMax, 1>>}

\* the boards: rows of exponents 0..MaxExp in turn with rows of empty cells
\* and 2-tiles, and the same boards transposed
InitMove ==
  /\ pc = "update"
  /\ \E a \in Rows(MaxExp), b \in Rows(1), t \in BOOLEAN, seed \in MoveSeeds :
       g = [board |-> IF t THEN Transpose(stripes(a, b)) ELSE stripes(a, b),
            score |-> 0, seed |-> seed]
  /\ g0 = g
  /\ key = "NONE" /\ moves = 0 /\ arg = <<>> /\ ret = <<>> /\ script = <<>>

CallUpdate ==
  /\ pc = "update"
  /\ \E k \in Keys :
       /\ key' = k
       /\ g0' = g
       /\ pc' = update_pc(g, k, "update_ret")
       /\ g' = (IF pc' = "update_ret" THEN update(g, k) ELSE g)
  /\ UNCHANGED <<moves, arg, ret, script>>

NextMove == CallUpdate

SpecMove == InitMove /\ [][NextMove]_vars

\* -- new_tile, on its own

\* the boards: striped boards of empty cells and 2-tiles, and their
\* transposes, that have an empty cell
InitTileCall ==
  /\ pc = "new_tile"
  /\ \E a \in Rows(1), b \in Rows(1), t \in BOOLEAN, seed \in Seeds :
       /\ ~(\A j \in Idx : a[j] # 0 /\ b[j] # 0)
       /\ g = [board |-> IF t THEN Transpose(stripes(a, b)) ELSE stripes(a, b),
               score |-> 0, seed |-> seed]
  /\ g0 = g
  /\ key = "NONE" /\ moves = 0 /\ arg = <<>> /\ ret = <<>> /\ script = <<>>

CallNewTile ==
  /\ pc = "new_tile"
  /\ g0' = g
  /\ LET t == new_tile(g.board, g.seed)
     IN  g' = [g EXCEPT !.board = t.board, !.seed = t.seed]
  /\ pc' = "new_tile_ret"
  /\ UNCHANGED <<key, moves, arg, ret, script>>

NextTile == CallNewTile

SpecTile == InitTileCall /\ [][NextTile]_vars

\* -- is_victory and is_loss, on their own

poke(b, i, j, v) == [b EXCEPT ![i][j] = v]

\* the boards: rows of exponents 0..MaxExp in turn with rows of empty cells,
\* 2-tiles and 4-tiles, and the same boards transposed; and the striped boards
\* of empty cells and 2-tiles with one cell set to an exponent around
\* TARGET_TILE
InitQuery ==
  /\ pc = "query"
  /\ \/ \E a \in Rows(MaxExp), b \in Rows(2), t \in BOOLEAN :
          arg = IF t THEN Transpose(stripes(a, b)) ELSE stripes(a, b)
     \/ \E a \in Rows(1), b \in Rows(1), i \in Idx, j \in Idx,
           v \in {TARGET_TILE - 1, TARGET_TILE, TARGET_TILE + 1} :
          arg = poke(stripes(a, b), i, j, v)
  /\ ret = <<>>
  /\ g = NoGame /\ g0 = NoGame /\ key = "NONE" /\ moves = 0 /\ script = <<>>

CallIsVictory ==
  /\ pc = "query"
  /\ ret' = is_victory(arg)
  /\ pc' = "is_victory_ret"
  /\ UNCHANGED <<g, g0, key, moves, arg, script>>

CallIsLoss ==
  /\ pc = "query"
  /\ ret' = is_loss(arg)
  /\ pc' = "is_loss_ret"
  /\ UNCHANGED <<g, g0, key, moves, arg, script>>

NextQuery == CallIsVictory \/ CallIsLoss

SpecQuery == InitQuery /\ [][NextQuery]_vars

\* -- rotate_cw, four times in a row as in the loop of update

\* the boards: every board of empty cells and 2-tiles
InitRotate ==
  /\ pc = "rotate"
  /\ \E r0 \in Rows(1), r1 \in Rows(1), r2 \in Rows(1), r3 \in Rows(1) :
       g = [NoGame EXCEPT !.board = array(LAMBDA i : <<r0, r1, r2, r3>>[i + 1])]
  /\ g0 = g
  /\ arg = g.board
  /\ ret = g.board
  /\ key = "NONE" /\ moves = 0 /\ script = <<>>

\* rotate_cw called on the result of the call before
CallRotateCw ==
  /\ pc \in {"rotate", "rotate_cw_1", "rotate_cw_2", "rotate_cw_3"}
  /\ arg' = ret
  /\ ret' = rotate_cw(ret)
  /\ pc' = (CASE pc = "rotate"      -> "rotate_cw_1"
              [] pc = "rotate_cw_1" -> "rotate_cw_2"
              [] pc = "rotate_cw_2" -> "rotate_cw_3"
              [] pc = "rotate_cw_3" -> "rotate_cw_4")
  /\ UNCHANGED <<g, g0, key, moves, script>>

NextRotate == CallRotateCw

SpecRotate == InitRotate /\ [][NextRotate]_vars

\* ---------------------------------------------------------------- the claims

\* -- what the claims are stated with: the merge rule and the moves, on sequences

\* a row as the sequence of its entries from left to right, and back (a
\* sequence shorter than a row is filled up with empty cells)
RowSeq(row) == <<row[0], row[1], row[2], row[3]>>
SeqRow(s) == array(LAMBDA j : IF j + 1 <= Len(s) THEN s[j + 1] ELSE 0)

\* step 1 and 3 of the rule: the non-zero entries, in their order
Packed(s) == SelectSeq(s, LAMBDA x : x # 0)

\* step 2: from the left, each pair of equal neighbours becomes (e + 1, 0),
\* and the scan goes on behind the pair
RECURSIVE PairsMerged(_)
PairsMerged(s) ==
  IF Len(s) < 2 THEN s
  ELSE IF s[1] = s[2]
       THEN <<s[1] + 1, 0>> \o PairsMerged(SubSeq(s, 3, Len(s)))
       ELSE <<s[1]>> \o PairsMerged(Tail(s))

RuleMerge(s) == Packed(PairsMerged(Packed(s)))

LeftPacked(row) == \A j \in 0..(TILES_PER_DIM - 2) : row[j] = 0 => row[j + 1] = 0

\* C2: merge_row_left returns what the three-step rule (pack, merge each pair
\* of equal neighbours once from the left, pack) returns, a row with its
\* non-zero entries first; merge_left does so on each row of a board.
C2_MergeRowLeftIsTheRule ==
  /\ pc = "merge_row_left_ret" =>
       /\ ret = SeqRow(RuleMerge(RowSeq(arg)))
       /\ LeftPacked(ret)
  /\ pc = "merge_left_ret" =>
       \A i \in Idx : ret[i] = SeqRow(RuleMerge(RowSeq(arg[i])))

\* three equal tiles: only the leftmost pair is merged
C2_Witness ==
  /\ pc = "merge_row_left_ret"
  /\ RowSeq(arg) = <<5, 5, 5, 0>>
  /\ RowSeq(ret) = <<6, 5, 0, 0>>

HasEqualNeighbours(row) ==
  \E j \in 0..(TILES_PER_DIM - 2) : row[j] # 0 /\ row[j] = row[j + 1]

\* C3, as stated: merge_row_left applied to its own result changes nothing.
C3_MergeIdempotent ==
  pc = "merge_row_left_again" => ret = arg

\* C3, amended: merge_row_left applied to its own result changes nothing
\* exactly when that result has no two equal non-zero neighbours.
C3_SecondMergeChangesOnlyEqualNeighbours ==
  pc = "merge_row_left_again" => (ret = arg <=> ~HasEqualNeighbours(arg))

\* the second pass merges the two 4-tiles the first pass made of four 2-tiles
C3_Witness ==
  /\ pc = "merge_row_left_again"
  /\ RowSeq(arg) = <<2, 2, 0, 0>>
  /\ RowSeq(ret) = <<3, 0, 0, 0>>

\* -- the moves, stated directly

\* line n of the board across the move, read from the side the key names:
\* a row from column 0 (Left) or column 3 (Right), a column from row 0 (Up)
\* or row 3 (Down)
Line(b, k, n) ==
  CASE k = "KEY_LEFT"  -> <<b[n][0], b[n][1], b[n][2], b[n][3]>>
    [] k = "KEY_RIGHT" -> <<b[n][3], b[n][2], b[n][1], b[n][0]>>
    [] k = "KEY_UP"    -> <<b[0][n], b[1][n], b[2][n], b[3][n]>>
    [] k = "KEY_DOWN"  -> <<b[3][n], b[2][n], b[1][n], b[0][n]>>

\* every line collapsed by the rule toward the side the key names
DirectMove(b, k) ==
  LET m == array(LAMBDA n : SeqRow(RuleMerge(Line(b, k, n))))
  IN  array(LAMBDA i : array(LAMBDA j :
        CASE k = "KEY_LEFT"  -> m[i][j]
          [] k = "KEY_RIGHT" -> m[i][TILES_PER_DIM - 1 - j]
          [] k = "KEY_UP"    -> m[j][i]
          [] k = "KEY_DOWN"  -> m[j][TILES_PER_DIM - 1 - i]))

\* the displayed values of the tiles the rule creates in a packed line
RECURSIVE MergeGain(_)
MergeGain(s) ==
  IF Len(s) < 2 THEN 0
  ELSE IF s[1] = s[2]
       THEN 2^(s[1] + 1) + MergeGain(SubSeq(s, 3, Len(s)))
       ELSE MergeGain(Tail(s))

MoveGain(b, k) ==
  MergeGain(Packed(Line(b, k, 0))) + MergeGain(Packed(Line(b, k, 1)))
  + MergeGain(Packed(Line(b, k, 2))) + MergeGain(Packed(Line(b, k, 3)))

Cells == Idx \X Idx
EmptyCells(b) == {c \in Cells : b[c[1]][c[2]] = 0}
Differing(a, b) == {c \in Cells : a[c[1]][c[2]] # b[c[1]][c[2]]}

Moved == pc = "update_ret" /\ key \in ArrowKeys

\* C1: the score update adds for a move is the sum of the displayed values of
\* the tiles its merges create.
C1_ScoreIsSumOfMergedTiles ==
  Moved => g.score - g0.score = MoveGain(g0.board, key)

\* C17: for every board and every direction the score update adds is not
\* negative and not more than the sum of the displayed values of the tiles the
\* merges of the move create; the score is never negative and never decreases.
C17_ScoreNeverOvercounts ==
  Moved =>
    /\ g.score - g0.score >= 0
    /\ g.score - g0.score <= MoveGain(g0.board, key)
    /\ g.score >= 0

\* a move that scores, and scores less than its merges are worth
C17_Witness ==
  /\ Moved
  /\ g.score - g0.score > 0
  /\ g.score - g0.score < MoveGain(g0.board, key)

\* the sum of the displayed values 2^e of the tiles of a board
RECURSIVE DisplayedFrom(_, _)
DisplayedFrom(b, c) ==
  IF c >= TILES_PER_DIM * TILES_PER_DIM THEN 0
  ELSE LET e == b[c \div TILES_PER_DIM][c % TILES_PER_DIM]
       IN  (IF e = 0 THEN 0 ELSE 2^e) + DisplayedFrom(b, c + 1)

Displayed(b) == DisplayedFrom(b, 0)

\* C18: for every board and direction, rotate, merge_left and rotate back
\* leaves the sum of the displayed values as it was; a move that changes the
\* board adds exactly 2 or 4 to it (the new tile), and a move that does not
\* change the board leaves it as it was.
C18_TileValueConservation ==
  Moved =>
    LET b1 == rotate_merge(g0.board, cw_rotations_of_key(key))
    IN  /\ Displayed(b1) = Displayed(g0.board)
        /\ IF b1 # g0.board
           THEN Displayed(g.board) - Displayed(g0.board) \in {2, 4}
           ELSE Displayed(g.board) = Displayed(g0.board)

\* a move that merges two pairs in a line, and gets a 4-tile
C18_Witness ==
  /\ Moved
  /\ \E n \in Idx : MergeGain(Packed(Line(g0.board, key, n))) = 12
  /\ Displayed(g.board) = Displayed(g0.board) + 4

\* C4: rotating r times, merge_left and rotating 4 - r times, with r = 0, 1,
\* 2, 3 for Left, Down, Right, Up, is the move toward the side the key names;
\* update returns that board, with one empty cell filled when it differs from
\* the board before the move.
C4_RotateMergeIsDirectMove ==
  Moved =>
    LET d == DirectMove(g0.board, key)
    IN  /\ cw_rotations_of_key(key) =
             (CASE key = "KEY_LEFT" -> 0 [] key = "KEY_DOWN" -> 1
                [] key = "KEY_RIGHT" -> 2 [] key = "KEY_UP" -> 3)
        /\ rotate_merge(g0.board, cw_rotations_of_key(key)) = d
        /\ IF d = g0.board THEN g.board = d
           ELSE \E c \in EmptyCells(d) : Differing(g.board, d) = {c}

\* a move down that merges a pair in a column
C4_Witness ==
  /\ Moved /\ key = "KEY_DOWN"
  /\ \E j \in Idx :
       /\ Line(g0.board, "KEY_DOWN", j) = <<1, 0, 1, 2>>
       /\ Line(DirectMove(g0.board, "KEY_DOWN"), "KEY_DOWN", j) = <<2, 2, 0, 0>>

\* C5: a key that is no arrow key, or a move that leaves the board as it was,
\* leaves the game as it was: board, score and seed.
C5_NoOpLeavesGame ==
  (/\ pc = "update_ret"
   /\ key \notin ArrowKeys \/ DirectMove(g0.board, key) = g0.board)
  => g = g0

\* a move that changes nothing on a board that has tiles and empty cells
C5_Witness ==
  /\ Moved
  /\ DirectMove(g0.board, key) = g0.board
  /\ EmptyCells(g0.board) # {} /\ EmptyCells(g0.board) # Cells
  /\ g = g0

\* C8: the board after rotate, merge_left and rotate back has at least as many
\* empty cells as the board before the move; update's board has one less than
\* that when the move changed the board.
C8_MoveKeepsEmptyCells ==
  Moved =>
    LET b1 == rotate_merge(g0.board, cw_rotations_of_key(key))
    IN  /\ Cardinality(EmptyCells(b1)) >= Cardinality(EmptyCells(g0.board))
        /\ Cardinality(EmptyCells(g.board)) =
             (IF g.board = g0.board THEN Cardinality(EmptyCells(b1))
              ELSE Cardinality(EmptyCells(b1)) - 1)

\* a move on a board without empty cells that merges, and so empties cells
C8_Witness ==
  /\ Moved
  /\ EmptyCells(g0.board) = {}
  /\ Cardinality(EmptyCells(g.board)) > 0

\* -- the spawner

\* the place of a cell in row-major order
RowMajor(c) == TILES_PER_DIM * c[1] + c[2]

\* the k-th empty cell of b in row-major order, counted from 0
KthEmptyCell(b, k) ==
  CHOOSE c \in EmptyCells(b) :
    Cardinality({e \in EmptyCells(b) : RowMajor(e) < RowMajor(c)}) = k

\* C6: new_tile draws an index, then a value; it writes exponent 2 if the
\* second draw is a multiple of 10 and exponent 1 otherwise into the empty cell
\* numbered (first draw) mod (number of empty cells) in row-major order, and
\* leaves every other cell as it was.
C6_NewTileFillsKthEmptyCell ==
  pc = "new_tile_ret" =>
    LET first == rand_r(g0.seed)
        second == rand_r(first.seed)
        c == KthEmptyCell(g0.board, first.val % Cardinality(EmptyCells(g0.board)))
        e == IF second.val % 10 = 0 THEN 2 ELSE 1
    IN  /\ g0.board[c[1]][c[2]] = 0
        /\ g.board[c[1]][c[2]] = e
        /\ Differing(g.board, g0.board) = {c}
        /\ g.seed = second.seed
        /\ g.score = g0.score

\* a 4-tile placed in an empty cell that is not the first one
C6_Witness ==
  /\ pc = "new_tile_ret"
  /\ \E c \in EmptyCells(g0.board) :
       /\ g.board[c[1]][c[2]] = 2
       /\ \E e \in EmptyCells(g0.board) : RowMajor(e) < RowMajor(c)

\* -- sessions

\* the board the last call of new_tile was given: the board of the game for an
\* initial tile, the moved board in update
BoardPassedToNewTile ==
  IF key \in ArrowKeys THEN rotate_merge(g0.board, cw_rotations_of_key(key))
  ELSE g0.board

\* C7: in a session new_tile is never called on a board without an empty
\* cell, neither for the initial tiles nor in update: the division by zeros is
\* never a division by 0, and each call fills one cell that was empty.
C7_NewTileHasAnEmptyCell ==
  /\ pc # "new_tile_div0"
  /\ (pc \in {"init1", "loop"} /\ g.board # g0.board) =>
       \E c \in EmptyCells(BoardPassedToNewTile) :
         Differing(g.board, BoardPassedToNewTile) = {c}

\* update has called new_tile on a board with one empty cell, the last one
C7_Witness ==
  /\ pc = "loop" /\ key \in ArrowKeys
  /\ g.board # g0.board
  /\ EmptyCells(g.board) = {}

\* -- the terminal-state predicates

\* C9: is_loss is true exactly when rotate, merge_left and rotate back returns
\* the board it was given for each of the four arrow keys; on a board of
\* exponents below TARGET_TILE, exactly when no arrow key makes update change
\* the board.
C9_LossIsNoMoveInAnyDirection ==
  pc = "is_loss_ret" =>
    LET game == [board |-> arg, score |-> 0, seed |-> <<0, 0>>]
    IN  /\ ret <=> \A k \in ArrowKeys :
                     rotate_merge(arg, cw_rotations_of_key(k)) = arg
        /\ (\A c \in Cells : arg[c[1]][c[2]] < TARGET_TILE) =>
             (ret <=> \A k \in ArrowKeys : update(game, k).board = arg)

\* a board with tiles and empty cells that no key moves does not exist; a
\* board full of tiles with no two equal neighbours is lost
C9_Witness ==
  /\ pc = "is_loss_ret"
  /\ ret = TRUE
  /\ EmptyCells(arg) = {}

\* two cells next to each other in a row or in a column hold the same exponent
AdjacentEqual(b) ==
  \E i \in Idx : \E j \in 0..(TILES_PER_DIM - 2) :
    b[i][j] = b[i][j + 1] \/ b[j][i] = b[j + 1][i]

\* C16: on every board with at least one tile, is_loss is true exactly when
\* the board has no empty cell and no two cells next to each other in a row or
\* in a column hold the same exponent.
C16_LossIsFullWithoutEqualNeighbours ==
  (pc = "is_loss_ret" /\ EmptyCells(arg) # Cells) =>
    (ret <=> (EmptyCells(arg) = {} /\ ~AdjacentEqual(arg)))

\* a full board whose only equal neighbours are in a column is not lost
C16_Witness ==
  /\ pc = "is_loss_ret"
  /\ ret = FALSE
  /\ EmptyCells(arg) = {}
  /\ \A i \in Idx : ~HasEqualNeighbours(arg[i])
  /\ AdjacentEqual(arg)

\* C10: is_victory is true exactly when some cell holds an exponent of
\* TARGET_TILE or more.
C10_VictoryIsATargetTile ==
  pc = "is_victory_ret" =>
    (ret <=> \E c \in Cells : arg[c[1]][c[2]] >= TARGET_TILE)

\* one cell holds exactly TARGET_TILE among tiles and empty cells
C10_Witness ==
  /\ pc = "is_victory_ret"
  /\ ret = TRUE
  /\ \E c \in Cells :
       /\ arg[c[1]][c[2]] = TARGET_TILE
       /\ \A d \in Cells \ {c} : arg[d[1]][d[2]] < TARGET_TILE
  /\ EmptyCells(arg) # {} /\ Cardinality(EmptyCells(arg)) < 15

\* -- the rotation

RotateRet == {"rotate_cw_1", "rotate_cw_2", "rotate_cw_3", "rotate_cw_4"}

\* C11: rotate_cw returns the board r with r[i][j] = b[3 - j][i] for all i, j
\* in 0..3, and four calls of rotate_cw in a row return the board the first
\* was given.
C11_RotationCycle ==
  /\ pc \in RotateRet =>
       \A i \in Idx : \A j \in Idx : ret[i][j] = arg[3 - j][i]
  /\ pc = "rotate_cw_4" => ret = g.board

\* four rotations of a board that one, two and three rotations change: a
\* single tile in the top left corner
C11_Witness ==
  /\ pc = "rotate_cw_4"
  /\ ret = g.board
  /\ EmptyCells(g.board) = Cells \ {<<0, 0>>}
  /\ arg[3][0] = 1

\* -- sessions, from the first key to the last

\* C13: in every state of a session, from the initial tiles to the state the
\* loop ends in, every cell holds an exponent in 0..TARGET_TILE; dscore never
\* indexes b0_count or b1_count outside 0..TARGET_TILE.
C13_CellsAtMostTarget ==
  /\ \A c \in Cells : g.board[c[1]][c[2]] \in 0..TARGET_TILE
  /\ pc # "dscore_out_of_range"

\* C15: for every seed, the game play starts with (the empty board after
\* INITIAL_TILES calls of new_tile) has exactly 2 cells that are not empty,
\* each with exponent 1 or 2, and score 0.
C15_PlayStartsWithTwoTiles ==
  [][(pc = "init1" /\ pc' = "loop") =>
       /\ Cardinality(Cells \ EmptyCells(g'.board)) = 2
       /\ \A c \in Cells : g'.board[c[1]][c[2]] \in {0, 1, 2}
       /\ g'.score = 0]_vars

\* play starts with a 2-tile and a 4-tile
C15_Witness ==
  /\ pc = "loop" /\ key = "NONE"
  /\ tile_count(g.board, 0) = 14
  /\ tile_count(g.board, 1) = 1
  /\ tile_count(g.board, 2) = 1
  /\ g.score = 0

\* C14: the loop ends as soon as the board is won or lost: no pass of the loop
\* (no call of update) starts from such a board, and from such a board the
\* only step is the end of the loop, which leaves board and score as they are.
C14_SessionEndsAtTerminal ==
  [][/\ (pc = "loop" /\ pc' # "done") => ~Terminal(g.board)
     /\ (pc \in {"loop", "done"} /\ Terminal(g.board)) =>
          /\ pc' = "done"
          /\ g'.board = g.board
          /\ g'.score = g.score]_vars

\* the loop has ended on a won board while the player had moves left
C14_Witness ==
  /\ pc = "done"
  /\ is_victory(g.board)
  /\ moves < MaxMoves

\* the session ends on a board with a 2048-tile that update made of two
\* 1024-tiles
C13_Witness ==
  /\ pc = "done"
  /\ \E c \in Cells : g.board[c[1]][c[2]] = TARGET_TILE
  /\ tile_count(g0.board, TARGET_TILE - 1) = 2

\* C19: no session goes on changing the board for ever: every pass of the
\* loop that changes the board raises the sum of the displayed values, which
\* 16 cells of exponents up to TARGET_TILE bound; and a session of a player
\* who, while the board is neither won nor lost, comes to press an arrow key
\* that changes it, reaches a won or lost board and the loop ends.
C19_SessionTerminates ==
  /\ [][Changing => Displayed(g'.board) > Displayed(g.board)]_vars
  /\ [](Displayed(g.board) <= TILES_PER_DIM * TILES_PER_DIM * 2^TARGET_TILE)
  /\ <>(pc = "done" /\ Terminal(g.board))

\* the session of WinRotations (its score is above 15000 after the script),
\* turned away from the 2048-tile by the player's free moves and lost in the
\* moves pressed after them
C19_Witness ==
  /\ pc = "done"
  /\ is_loss(g.board)
  /\ moves = MaxMoves
  /\ g.score > 15000

====
